---- MODULE Spec2Model ----
(***************************************************************************)
(* A state-machine model of new-shimeji's sprite distribution engine:      *)
(* the BucketManager on the controlling thread (src/main.rs), the          *)
(* ShimejiBucket handle it keeps per worker (src/bucket.rs) and the worker *)
(* loop that runs on each bucket's thread (src/off_thread/shimeji.rs).     *)
(*                                                                         *)
(* Threads and channels are numbered 1..MaxThreads in spawn order: init    *)
(* creates one mpsc channel and one thread together, so thread t receives  *)
(* from channel t.  Option::None is modelled as 0.                         *)
(***************************************************************************)
EXTENDS Integers, Sequences, FiniteSets, TLC

\* ---- bounds of the model -------------------------------------------------
MaxPool == 2        \* largest pool size passed to BucketManager::new
MaxThreads == 3     \* threads (and channels) ever spawned
MaxWindows == 3     \* windows ever created by the window system
MaxPending == 3     \* length of the pending queue
MaxInbox == 2       \* Resized messages are only sent to inboxes shorter than this
MaxCalls == 3       \* bucket methods called directly, not through the manager
MaxFrames == 3      \* <frame> elements in an Animation, and the largest frame number
MaxClock == 5       \* ticks the clock runs for

None == 0
Configs == {"a", "b"}
ThreadIds == 1..MaxThreads
WindowIds == 1..MaxWindows

VARIABLES
    pc,                   \* position of the controlling thread
    panicked,             \* the controlling thread has panicked (it is unwinding)
    ret,                  \* the last call that was observed and what it returned
    should_exit,          \* the shared Arc<AtomicBool>
    loop_exit,            \* event_loop.exit() has been requested
    pending_shimejis,     \* BucketManager.pending_shimejis
    buckets,              \* BucketManager.buckets: id -> ShimejiBucket
    buckets_windows_map,  \* BucketManager.buckets_windows_map: window id -> bucket id
    windows,              \* number of windows the window system has created
    spawned,              \* number of threads spawned so far
    worker,               \* thread id -> [id, pc, inner_vec], and what is observed of
                          \* its passes: queued (messages in the inbox at the head of
                          \* the pass in progress), stepped (calls of the last pass)
    inbox,                \* channel id -> queued messages
    sorted,               \* address_pending_shimejis: the local Vec `buckets`
    cycle,                \* address_pending_shimejis: items taken from `buckets_by_count`
    joining,              \* join_thread: the thread handle being joined
    dropping,             \* the manager is being dropped
    dropped,              \* ids of the buckets whose Drop has finished
    calls,                \* number of bucket methods called directly so far
    drain_start,          \* observation: pending queue and counts at the start of the call
    drain_log,            \* observation: (sprite, window, bucket) per Add sent by the call
    adds_sent,            \* observation: bucket id -> Add messages sent through it
    unit,                 \* one sprite definition, its ShimejiData and its ShimejiWindow
    clock                 \* the monotonic clock Instant::now() reads, in ticks

vars == <<pc, panicked, ret, should_exit, loop_exit, pending_shimejis, buckets,
          buckets_windows_map, windows, spawned, worker, inbox, sorted, cycle,
          joining, dropping, dropped, calls, drain_start, drain_log, adds_sent,
          unit, clock>>

unit_vars == <<unit, clock>>

ctl_manager == <<pc, panicked, ret, should_exit, loop_exit, pending_shimejis, buckets,
                 buckets_windows_map, windows, spawned, sorted, cycle, joining,
                 dropping, dropped, calls, drain_start, drain_log, adds_sent>>

ctl_vars == <<pc, panicked, ret, should_exit, loop_exit, pending_shimejis, buckets,
              buckets_windows_map, windows, spawned, sorted, cycle, joining,
              dropping, dropped, calls, drain_start, drain_log, adds_sent,
              unit, clock>>

\* ---- helpers -------------------------------------------------------------
Ids == DOMAIN buckets

Min(S) == CHOOSE x \in S : \A y \in S : x <= y

Range(s) == {s[i] : i \in DOMAIN s}

\* Vec::pop: the last element is taken
Last(s) == s[Len(s)]
Front(s) == SubSeq(s, 1, Len(s) - 1)

\* the worker's closure has returned or unwound: its Receiver is dropped
Terminated(t) == worker[t].pc \in {"done", "panicked"}

Spawned(t) == worker[t].pc # "unborn"

\* some bucket still holds the Sender of channel t
SenderAlive(t) == \E b \in Ids : buckets[b].sender = t

\* ---- ShimejiBucket (src/bucket.rs) ----------------------------------------
ShimejiBucket_new(id) ==
    [id |-> id, is_running |-> FALSE, thread |-> None,
     currently_responsible_shimejis |-> 0, sender |-> None]

contained_shimejis(bk) == bk.currently_responsible_shimejis

ShimejiBucket_init_not_flagged(bk, t, spawn_ok) ==
    IF bk.is_running
    THEN [ret |-> "DoubleInit", bucket |-> bk, spawn |-> FALSE]
    ELSE IF ~spawn_ok
    THEN [ret |-> "Io", bucket |-> bk, spawn |-> FALSE]
    ELSE [ret |-> "Ok", bucket |-> [bk EXCEPT !.sender = t, !.thread = t], spawn |-> TRUE]

ShimejiBucket_init_unguarded(bk, t, spawn_ok) ==
    IF ~spawn_ok
    THEN [ret |-> "Io", bucket |-> bk, spawn |-> FALSE]
    ELSE [ret |-> "Ok",
          bucket |-> [bk EXCEPT !.sender = t, !.thread = t, !.is_running = TRUE],
          spawn |-> TRUE]

\* init: t is the thread/channel that a successful spawn creates
ShimejiBucket_init(bk, t, spawn_ok) ==
    IF bk.is_running
    THEN [ret |-> "DoubleInit", bucket |-> bk, spawn |-> FALSE]
    ELSE IF ~spawn_ok
    THEN [ret |-> "Io", bucket |-> bk, spawn |-> FALSE]
    ELSE [ret |-> "Ok",
          bucket |-> [bk EXCEPT !.sender = t, !.thread = t, !.is_running = TRUE],
          spawn |-> TRUE]

ShimejiBucket_add_uncounted(bk, receiver_alive) ==
    IF ~bk.is_running \/ bk.sender = None
    THEN [ret |-> "NotRunning", bucket |-> bk, send |-> FALSE]
    ELSE IF ~receiver_alive
    THEN [ret |-> "panic", bucket |-> bk, send |-> FALSE]
    ELSE [ret |-> "Ok", bucket |-> bk, send |-> TRUE]

ShimejiBucket_add_counts_first(bk, receiver_alive) ==
    LET counted == [bk EXCEPT !.currently_responsible_shimejis = @ + 1] IN
    IF ~bk.is_running \/ counted.sender = None
    THEN [ret |-> "NotRunning", bucket |-> counted, send |-> FALSE]
    ELSE IF ~receiver_alive
    THEN [ret |-> "panic", bucket |-> counted, send |-> FALSE]
    ELSE [ret |-> "Ok", bucket |-> counted, send |-> TRUE]

\* add: receiver_alive tells whether the send on the stored sender succeeds
ShimejiBucket_add(bk, receiver_alive) ==
    IF ~bk.is_running
    THEN [ret |-> "NotRunning", bucket |-> bk, send |-> FALSE]
    ELSE LET counted == [bk EXCEPT !.currently_responsible_shimejis = @ + 1] IN
         IF counted.sender = None
         THEN [ret |-> "NotRunning", bucket |-> counted, send |-> FALSE]
         ELSE IF ~receiver_alive
         THEN [ret |-> "panic", bucket |-> counted, send |-> FALSE]
         ELSE [ret |-> "Ok", bucket |-> counted, send |-> TRUE]

ShimejiBucket_was_resized(bk, receiver_alive) ==
    IF ~bk.is_running
    THEN [ret |-> "NotRunning", bucket |-> bk, send |-> FALSE]
    ELSE IF bk.sender = None
    THEN [ret |-> "NotRunning", bucket |-> bk, send |-> FALSE]
    ELSE IF ~receiver_alive
    THEN [ret |-> "panic", bucket |-> bk, send |-> FALSE]
    ELSE [ret |-> "Ok", bucket |-> bk, send |-> TRUE]

ShimejiBucket_join_thread_detaches(bk) ==
    IF ~bk.is_running \/ bk.thread = None
    THEN [ret |-> "Ok", bucket |-> bk, join |-> None]
    ELSE [ret |-> "Ok",
          bucket |-> [bk EXCEPT !.sender = None, !.thread = None, !.is_running = FALSE],
          join |-> None]

ShimejiBucket_join_thread_keeps_sender(bk) ==
    IF ~bk.is_running \/ bk.thread = None
    THEN [ret |-> "Ok", bucket |-> bk, join |-> None]
    ELSE [ret |-> "blocked", bucket |-> [bk EXCEPT !.thread = None], join |-> bk.thread]

ShimejiBucket_join_thread_unguarded(bk) ==
    [ret |-> "blocked",
     bucket |-> [bk EXCEPT !.sender = None, !.thread = None, !.is_running = TRUE],
     join |-> bk.thread]

\* join_thread, up to the blocking JoinHandle::join
ShimejiBucket_join_thread(bk) ==
    IF ~bk.is_running \/ bk.thread = None
    THEN [ret |-> "Ok", bucket |-> bk, join |-> None]
    ELSE [ret |-> "blocked",
          bucket |-> [bk EXCEPT !.sender = None, !.thread = None],
          join |-> bk.thread]

ShimejiBucket_joined_still_running(bk) == bk

\* join_thread, after JoinHandle::join has returned (Ok or Err, both only logged)
ShimejiBucket_joined(bk) == [bk EXCEPT !.is_running = FALSE]

\* JoinHandle::join on a thread that has terminated: Err holds the panic payload
JoinHandle_join(w) == IF w.pc = "panicked" THEN "Err" ELSE "Ok"

join_thread_match_unwraps(joined) == IF joined = "Err" THEN "panic" ELSE "Ok"

\* join_thread's match on the value of join: either arm only logs, and
\* join_thread goes on
join_thread_match(joined) == "Ok"

\* ---- BucketManager (src/main.rs) -------------------------------------------
NoJoin == [id |-> 0, thread |-> None]
NoCall == [op |-> "none", id |-> 0, result |-> "none", running |-> FALSE]
Call(op, bk, result) == [op |-> op, id |-> bk.id, result |-> result, running |-> bk.is_running]
NoDrain == [pending |-> <<>>, counts |-> <<>>, windows |-> 0, routed |-> {}]

\* the send on the bucket's stored sender reaches a live Receiver
ReceiverAlive(bk) == bk.sender # None /\ ~Terminated(bk.sender)

Counts == [b \in Ids |-> contained_shimejis(buckets[b])]

\* self.buckets.iter(): the ids in Vec order
BucketsIter(n) == [i \in 1..n |-> i - 1]

\* Vec::sort_by_key is stable: an element goes behind every element whose key
\* is not greater than its own
InsertByKey(s, x, key) ==
    LET p == Cardinality({i \in DOMAIN s : key[s[i]] <= key[x]}) IN
    SubSeq(s, 1, p) \o <<x>> \o SubSeq(s, p + 1, Len(s))

sorted_by_key_unsorted(s, key) == s

RECURSIVE sorted_by_key_descending(_, _)
sorted_by_key_descending(s, key) ==
    IF s = <<>> THEN <<>>
    ELSE LET rest == sorted_by_key_descending(Front(s), key)
             x == Last(s)
             p == Cardinality({i \in DOMAIN rest : key[rest[i]] >= key[x]})
         IN  SubSeq(rest, 1, p) \o <<x>> \o SubSeq(rest, p + 1, Len(rest))

RECURSIVE sorted_by_key(_, _)
sorted_by_key(s, key) ==
    IF s = <<>> THEN <<>>
    ELSE InsertByKey(sorted_by_key(Front(s), key), Last(s), key)

\* .enumerate().map(|(idx, _)| idx).collect(): positions in the sorted order
buckets_by_count(n) == [i \in 1..n |-> i - 1]

\* .cycle().next() for the k-th time (k counted from 0)
CycleNext(by_count, k) == by_count[(k % Len(by_count)) + 1]

HashMap_insert_lost(m, k, v) == m

\* HashMap::insert
HashMap_insert(m, k, v) == [x \in DOMAIN m \cup {k} |-> IF x = k THEN v ELSE m[x]]

AddMsg(w, c) == [type |-> "Add", id |-> w, data |-> c]

\* the `ShimejiData {}` that address_pending_shimejis hands to add: the popped
\* ShimejiConfig itself is not passed on
EmptyData == "empty"
ResizedMsg(w) == [type |-> "Resized", id |-> w, data |-> "size"]
RemoveMsg(w) == [type |-> "Remove", id |-> w, data |-> "none"]

FreshWorker(b) == [id |-> b, pc |-> "top", inner_vec |-> <<>>, queued |-> 0, stepped |-> <<>>]
Unborn == [id |-> 0, pc |-> "unborn", inner_vec |-> <<>>, queued |-> 0, stepped |-> <<>>]

\* ---- the sprite definition and its ShimejiData (src/xml_parser.rs, src/loader.rs)
\* A definition is modelled by one <Animation>: its name, the text of its fps
\* attribute ("absent" when it has none) and the `number` attributes of its
\* <frame> children in document order.  A frame's pixels are named by its number.
DefaultFps == 24
TicksPerSecond == 24

AnimationNames == {"idle", "walk"}
FpsTexts == {"absent", "x", "0", "12", "24", "-12"}

RECURSIVE SeqsUpTo(_, _)
SeqsUpTo(S, n) ==
    IF n = 0 THEN {<<>>}
    ELSE LET shorter == SeqsUpTo(S, n - 1) IN
         shorter \cup {Append(q, x) : q \in shorter, x \in S}

FrameNumbers == SeqsUpTo(1..MaxFrames, MaxFrames)

\* Option<f64>
NoValue == [some |-> FALSE, val |-> 0]
Some(v) == [some |-> TRUE, val |-> v]

\* str::parse::<f64>
parse_f64(text) ==
    CASE text = "0" -> Some(0)
      [] text = "12" -> Some(12)
      [] text = "24" -> Some(24)
      [] text = "-12" -> Some(0 - 12)
      [] OTHER -> NoValue

\* AnimationXml
AnimationXml(name, fps, frames) == [name |-> name, fps |-> fps, frames |-> frames]

parse_allows_empty(name, fps_text, numbers, closed) ==
    IF fps_text = "absent"
    THEN [err |-> "MissingAttribute", animations |-> <<>>]
    ELSE IF ~parse_f64(fps_text).some
    THEN [err |-> "MalformedFile", animations |-> <<>>]
    ELSE IF ~closed
    THEN [err |-> "none", animations |-> <<>>]
    ELSE [err |-> "none",
          animations |-> <<AnimationXml(name, parse_f64(fps_text), numbers)>>]

\* parse, for a definition with one Animation element: the fps attribute is
\* looked up and parsed at its start tag, its frame children are collected, and
\* at its end tag (`closed`) it is refused when it has no frame and pushed to
\* `animations` otherwise.  When the events stop before the end tag (the reader
\* reports an error and the loop breaks) nothing has been pushed.
parse(name, fps_text, numbers, closed) ==
    IF fps_text = "absent"
    THEN [err |-> "MissingAttribute", animations |-> <<>>]
    ELSE IF ~parse_f64(fps_text).some
    THEN [err |-> "MalformedFile", animations |-> <<>>]
    ELSE IF ~closed
    THEN [err |-> "none", animations |-> <<>>]
    ELSE IF numbers = <<>>
    THEN [err |-> "MalformedFile", animations |-> <<>>]
    ELSE [err |-> "none",
          animations |-> <<AnimationXml(name, parse_f64(fps_text), numbers)>>]

unwrap_or_always(opt, default) == default

\* Option::unwrap_or
unwrap_or(opt, default) == IF opt.some THEN opt.val ELSE default

\* the key of `animation.frames.sort_by_key(|f| f.number)`
FrameNumberKey == [x \in 1..MaxFrames |-> x]

NoData == [name |-> "", fps |-> 0, frames |-> <<>>]

\* create_shimeji_data_from_file_name, for the animation parse returned
AnimationData(animation) ==
    [name |-> animation.name,
     fps |-> unwrap_or(animation.fps, DefaultFps),
     frames |-> sorted_by_key(animation.frames, FrameNumberKey)]

\* ---- ShimejiWindow (src/off_thread/shimeji.rs) -------------------------------
\* the Animation element of the definition file: the numbers of its frame
\* children in file order, and whether its end tag is there
NoFile == [numbers |-> <<>>, closed |-> FALSE]

NoUnit ==
    [pc |-> "none", fps_text |-> "absent", err |-> "none", data |-> NoData,
     current_frame |-> None, last_rendered_frame |-> 0, pixels |-> None,
     visible |-> FALSE, last |-> "none", prev |-> "none", called_at |-> 0,
     file |-> NoFile]

\* ShimejiWindow::new at time `now`
ShimejiWindow_new(u, now) ==
    [u EXCEPT !.pc = "live", !.visible = TRUE, !.pixels = None,
              !.last_rendered_frame = now, !.current_frame = None]

\* Duration::from_secs_f64(1.0 / fps), in ticks: 1.0 / 0.0 is infinite and a
\* negative rate gives negative seconds, and from_secs_f64 panics on both
time_between_frames(fps) ==
    IF fps <= 0
    THEN [panics |-> TRUE, ticks |-> 0]
    ELSE [panics |-> FALSE, ticks |-> TicksPerSecond \div fps]

frame_cap_ignored(delta_time, between) == FALSE

\* delta_time < time_between_frames
frame_cap(delta_time, between) == delta_time < between

next_frame_late_wrap(current_frame, n) ==
    LET frame_index == (IF current_frame = None THEN 1 ELSE current_frame) + 1 IN
    IF frame_index - 1 > n THEN 1 ELSE frame_index

\* the cursor an eligible update leaves: one past the old one (an unset cursor
\* counting as 1), or 1 when frames.get(frame_index - 1) is None
next_frame(current_frame, n) ==
    LET frame_index == (IF current_frame = None THEN 1 ELSE current_frame) + 1 IN
    IF frame_index - 1 >= n THEN 1 ELSE frame_index

render_keeps_timestamp(u, frame_index, now) ==
    [u EXCEPT !.current_frame = frame_index,
              !.pixels = u.data.frames[frame_index],
              !.visible = TRUE]

\* the frame is copied to the surface and presented, the window is made visible
\* and the time is taken
render(u, frame_index, now) ==
    [u EXCEPT !.current_frame = frame_index,
              !.pixels = u.data.frames[frame_index],
              !.visible = TRUE,
              !.last_rendered_frame = now]

\* ShimejiWindow::update called at time `now`, a render taking `took` ticks
ShimejiWindow_update(u, now, took) ==
    IF u.data.name # "idle"
    THEN [unit |-> u, did |-> "panic: no idle animation"]
    ELSE LET between == time_between_frames(u.data.fps) IN
         IF between.panics
         THEN [unit |-> u, did |-> "panic: from_secs_f64"]
         ELSE IF frame_cap(now - u.last_rendered_frame, between.ticks)
         THEN [unit |-> u, did |-> "early"]
         ELSE LET frame_index == next_frame(u.current_frame, Len(u.data.frames)) IN
              IF frame_index > Len(u.data.frames)
              THEN [unit |-> [u EXCEPT !.current_frame = frame_index],
                    did |-> "panic: index out of bounds"]
              ELSE [unit |-> render(u, frame_index, now + took), did |-> "rendered"]

Init ==
    /\ pc = "start"
    /\ panicked = FALSE
    /\ ret = NoCall
    /\ should_exit = FALSE
    /\ loop_exit = FALSE
    /\ pending_shimejis = <<>>
    /\ buckets = <<>>
    /\ buckets_windows_map = <<>>
    /\ windows = 0
    /\ spawned = 0
    /\ worker = [t \in ThreadIds |-> Unborn]
    /\ inbox = [t \in ThreadIds |-> <<>>]
    /\ sorted = <<>>
    /\ cycle = 0
    /\ joining = NoJoin
    /\ dropping = FALSE
    /\ dropped = {}
    /\ calls = 0
    /\ drain_start = NoDrain
    /\ drain_log = <<>>
    /\ adds_sent = <<>>
    /\ unit = NoUnit
    /\ clock = 0

\* BucketManager::new(amount); spawn number `fail` (counted from 0) fails,
\* fail = amount meaning that every spawn succeeds
BucketManager_new(amount, fail) ==
    /\ pc = "start"
    /\ UNCHANGED calls
    /\ UNCHANGED unit_vars
    /\ IF amount = 0
       THEN \* assert!(amount != 0)
            /\ panicked' = TRUE
            /\ pc' = "dropping"
            /\ UNCHANGED <<buckets, worker, spawned, should_exit, adds_sent>>
       ELSE LET made == IF fail < amount THEN fail ELSE amount
                built == [i \in 0..(made - 1) |->
                            ShimejiBucket_init(ShimejiBucket_new(i), i + 1, TRUE).bucket]
            IN  /\ buckets' = built
                /\ worker' = [t \in ThreadIds |->
                                IF t <= made THEN FreshWorker(t - 1) ELSE worker[t]]
                /\ spawned' = made
                /\ adds_sent' = [i \in 0..(made - 1) |-> 0]
                /\ IF fail < amount
                   THEN \* .expect("should be able to init bucket") panics; the
                        \* bucket that failed is dropped first and sets the flag
                        /\ panicked' = TRUE
                        /\ should_exit' = TRUE
                        /\ pc' = "dropping"
                   ELSE /\ pc' = "idle"
                        /\ UNCHANGED <<panicked, should_exit>>
    /\ dropping' = (pc' = "dropping")
    /\ UNCHANGED <<ret, loop_exit, pending_shimejis, buckets_windows_map, windows,
                   inbox, sorted, cycle, joining, dropped, drain_start, drain_log>>

add_shimeji_assigns(conf) ==
    /\ pc = "idle"
    /\ UNCHANGED calls
    /\ UNCHANGED unit_vars
    /\ Len(pending_shimejis) < MaxPending
    /\ windows + Len(pending_shimejis) < MaxWindows
    /\ pending_shimejis' = Append(pending_shimejis, conf)
    /\ buckets_windows_map' = HashMap_insert(buckets_windows_map, windows + 1, 0)
    /\ UNCHANGED <<pc, panicked, ret, should_exit, loop_exit, buckets,
                   windows, spawned, worker, inbox, sorted,
                   cycle, joining, dropping, dropped, drain_start, drain_log, adds_sent>>

\* BucketManager::add_shimeji: self.pending_shimejis.push(conf)
add_shimeji(conf) ==
    /\ pc = "idle"
    /\ UNCHANGED calls
    /\ UNCHANGED unit_vars
    /\ Len(pending_shimejis) < MaxPending
    /\ windows + Len(pending_shimejis) < MaxWindows
    /\ pending_shimejis' = Append(pending_shimejis, conf)
    /\ UNCHANGED <<pc, panicked, ret, should_exit, loop_exit, buckets,
                   buckets_windows_map, windows, spawned, worker, inbox, sorted,
                   cycle, joining, dropping, dropped, drain_start, drain_log, adds_sent>>

\* ApplicationHandler::resumed -> address_pending_shimejis, up to the loop
resumed ==
    /\ pc = "idle"
    /\ UNCHANGED calls
    /\ UNCHANGED unit_vars
    /\ ~loop_exit
    /\ sorted' = sorted_by_key(BucketsIter(Cardinality(Ids)), Counts)
    /\ cycle' = 0
    /\ pc' = "drain"
    /\ drain_start' = [pending |-> pending_shimejis, counts |-> Counts,
                        windows |-> windows, routed |-> DOMAIN buckets_windows_map]
    /\ drain_log' = <<>>
    /\ UNCHANGED <<panicked, ret, should_exit, loop_exit, pending_shimejis, buckets,
                   buckets_windows_map, windows, spawned, worker, inbox, joining,
                   dropping, dropped, adds_sent>>

\* one iteration of `while let Some(pending_shimeji) = self.pending_shimejis.pop()`
address_pending_shimejis ==
    /\ pc = "drain"
    /\ UNCHANGED calls
    /\ UNCHANGED unit_vars
    /\ pending_shimejis # <<>>
    /\ LET conf == Last(pending_shimejis)
           index == CycleNext(buckets_by_count(Len(sorted)), cycle)
           b == sorted[index + 1]
           w == windows + 1
           r == ShimejiBucket_add(buckets[b], ReceiverAlive(buckets[b]))
       IN  /\ pending_shimejis' = Front(pending_shimejis)
           /\ windows' = w
           /\ buckets' = [buckets EXCEPT ![b] = r.bucket]
           /\ IF r.send
              THEN /\ inbox' = [inbox EXCEPT ![buckets[b].sender] = Append(@, AddMsg(w, EmptyData))]
                   /\ adds_sent' = [adds_sent EXCEPT ![b] = @ + 1]
                   /\ buckets_windows_map' = HashMap_insert(buckets_windows_map, w, b)
                   /\ drain_log' = Append(drain_log, [sprite |-> conf, window |-> w, bucket |-> b])
                   /\ cycle' = cycle + 1
                   /\ UNCHANGED <<pc, panicked, dropping, sorted, drain_start>>
              ELSE \* .expect("should be able to add shimeji to bucket"), or the
                   \* unwrap of the failed send inside add
                   /\ panicked' = TRUE
                   /\ pc' = "dropping"
                   /\ dropping' = TRUE
                   /\ sorted' = <<>>
                   /\ cycle' = 0
                   /\ drain_start' = NoDrain
                   /\ drain_log' = <<>>
                   /\ UNCHANGED <<inbox, adds_sent, buckets_windows_map>>
    /\ UNCHANGED <<ret, should_exit, loop_exit, spawned, worker, joining, dropped>>

\* pop() returned None: address_pending_shimejis returns
address_pending_return ==
    /\ pc = "drain"
    /\ UNCHANGED calls
    /\ UNCHANGED unit_vars
    /\ pending_shimejis = <<>>
    /\ pc' = "idle"
    /\ sorted' = <<>>
    /\ cycle' = 0
    /\ drain_start' = NoDrain
    /\ drain_log' = <<>>
    /\ UNCHANGED <<panicked, ret, should_exit, loop_exit, pending_shimejis, buckets,
                   buckets_windows_map, windows, spawned, worker, inbox, joining,
                   dropping, dropped, adds_sent>>

\* ApplicationHandler::window_event
window_event ==
    /\ pc = "idle"
    /\ UNCHANGED calls
    /\ UNCHANGED unit_vars
    /\ ~loop_exit
    /\ loop_exit' = should_exit
    /\ UNCHANGED <<pc, panicked, ret, should_exit, pending_shimejis, buckets,
                   buckets_windows_map, windows, spawned, worker, inbox, sorted,
                   cycle, joining, dropping, dropped, drain_start, drain_log, adds_sent>>

\* ApplicationHandler::window_event delivering WindowEvent::Resized for window
\* window_id, and what the handler has done when it returns: the flag is looked
\* at, the event is logged, and the match falls to `_ => {}`
window_event_resized(window_id) ==
    /\ pc = "idle"
    /\ UNCHANGED calls
    /\ UNCHANGED unit_vars
    /\ ~loop_exit
    /\ window_id \in 1..windows
    /\ loop_exit' = should_exit
    /\ ret' = [op |-> "window_event", id |-> window_id, result |-> "()", running |-> FALSE]
    /\ pc' = "returned"
    /\ UNCHANGED <<panicked, should_exit, pending_shimejis, buckets,
                   buckets_windows_map, windows, spawned, worker, inbox, sorted,
                   cycle, joining, dropping, dropped, drain_start, drain_log, adds_sent>>

\* the tray item's "Kill" callback, registered by run
Kill ==
    /\ pc \in {"idle", "drain"}
    /\ UNCHANGED calls
    /\ UNCHANGED unit_vars
    /\ ~should_exit
    /\ should_exit' = TRUE
    /\ UNCHANGED <<pc, panicked, ret, loop_exit, pending_shimejis, buckets,
                   buckets_windows_map, windows, spawned, worker, inbox, sorted,
                   cycle, joining, dropping, dropped, drain_start, drain_log, adds_sent>>

\* ---- dropping the manager ---------------------------------------------------
\* The fields drop in declaration order: the Vec `buckets` releases, in id order,
\* every bucket that no routing-map entry still references; the HashMap then
\* releases the others in its iteration order, which is unspecified.
Routed(b) == \E w \in DOMAIN buckets_windows_map : buckets_windows_map[w] = b

DropOrder(b) ==
    LET unrouted == {i \in Ids \ dropped : ~Routed(i)} IN
    IF unrouted # {} THEN b = Min(unrouted) ELSE b \in Ids \ dropped

\* run returns (or a test's manager goes out of scope): the manager is dropped
drop_manager ==
    /\ pc = "idle"
    /\ UNCHANGED calls
    /\ UNCHANGED unit_vars
    /\ pc' = "dropping"
    /\ dropping' = TRUE
    /\ UNCHANGED <<panicked, ret, should_exit, loop_exit, pending_shimejis, buckets,
                   buckets_windows_map, windows, spawned, worker, inbox, sorted,
                   cycle, joining, dropped, drain_start, drain_log, adds_sent>>

\* impl Drop for ShimejiBucket, up to the blocking join
ShimejiBucket_drop(b) ==
    /\ pc = "dropping"
    /\ UNCHANGED calls
    /\ UNCHANGED unit_vars
    /\ b \in Ids \ dropped
    /\ DropOrder(b)
    /\ should_exit' = TRUE
    /\ LET r == ShimejiBucket_join_thread(buckets[b]) IN
       /\ buckets' = [buckets EXCEPT ![b] = r.bucket]
       /\ IF r.join = None
          THEN /\ dropped' = dropped \cup {b}
               /\ UNCHANGED <<pc, joining>>
          ELSE /\ pc' = "join"
               /\ joining' = [id |-> b, thread |-> r.join]
               /\ UNCHANGED dropped
    /\ UNCHANGED <<panicked, ret, loop_exit, pending_shimejis, buckets_windows_map,
                   windows, spawned, worker, inbox, sorted, cycle, dropping,
                   drain_start, drain_log, adds_sent>>

\* JoinHandle::join returns once the thread has terminated; join_thread then
\* clears is_running and returns Ok
join_returns ==
    /\ pc = "join"
    /\ UNCHANGED calls
    /\ UNCHANGED unit_vars
    /\ Terminated(joining.thread)
    /\ joining' = NoJoin
    /\ IF join_thread_match(JoinHandle_join(worker[joining.thread])) = "panic"
       THEN /\ panicked' = TRUE
            /\ pc' = "dropping"
            /\ dropping' = TRUE
            /\ dropped' = IF dropping THEN dropped \cup {joining.id} ELSE dropped
            /\ UNCHANGED <<buckets, ret>>
       ELSE /\ buckets' = [buckets EXCEPT ![joining.id] = ShimejiBucket_joined(@)]
            /\ UNCHANGED <<panicked, dropping>>
            /\ IF dropping
               THEN /\ dropped' = dropped \cup {joining.id}
                    /\ pc' = "dropping"
                    /\ UNCHANGED ret
               ELSE /\ pc' = "returned"
                    /\ ret' = Call("join_thread", buckets[joining.id], "Ok")
                    /\ UNCHANGED dropped
    /\ UNCHANGED <<should_exit, loop_exit, pending_shimejis,
                   buckets_windows_map, windows, spawned, worker, inbox, sorted,
                   cycle, drain_start, drain_log, adds_sent>>

\* every bucket has been dropped
manager_dropped ==
    /\ pc = "dropping"
    /\ UNCHANGED calls
    /\ UNCHANGED unit_vars
    /\ dropped = Ids
    /\ pc' = "dropped"
    /\ UNCHANGED <<panicked, ret, should_exit, loop_exit, pending_shimejis, buckets,
                   buckets_windows_map, windows, spawned, worker, inbox, sorted,
                   cycle, joining, dropping, dropped, drain_start, drain_log, adds_sent>>

\* ---- bucket methods called directly on a bucket of the pool -------------------
call_init(b, spawn_ok) ==
    /\ pc = "idle"
    /\ calls < MaxCalls
    /\ calls' = calls + 1
    /\ UNCHANGED unit_vars
    /\ b \in Ids
    /\ spawned < MaxThreads
    /\ LET t == spawned + 1
           r == ShimejiBucket_init(buckets[b], t, spawn_ok)
       IN  /\ ret' = Call("init", buckets[b], r.ret)
           /\ buckets' = [buckets EXCEPT ![b] = r.bucket]
           /\ IF r.spawn
              THEN /\ spawned' = t
                   /\ worker' = [worker EXCEPT ![t] = FreshWorker(b)]
              ELSE UNCHANGED <<spawned, worker>>
    /\ pc' = "returned"
    /\ UNCHANGED <<panicked, should_exit, loop_exit, pending_shimejis,
                   buckets_windows_map, windows, inbox, sorted, cycle, joining,
                   dropping, dropped, drain_start, drain_log, adds_sent>>

call_join_thread(b) ==
    /\ pc = "idle"
    /\ calls < MaxCalls
    /\ calls' = calls + 1
    /\ UNCHANGED unit_vars
    /\ b \in Ids
    /\ LET r == ShimejiBucket_join_thread(buckets[b]) IN
       /\ buckets' = [buckets EXCEPT ![b] = r.bucket]
       /\ IF r.join = None
          THEN /\ ret' = Call("join_thread", buckets[b], r.ret)
               /\ pc' = "returned"
               /\ UNCHANGED joining
          ELSE /\ pc' = "join"
               /\ joining' = [id |-> b, thread |-> r.join]
               /\ UNCHANGED ret
    /\ UNCHANGED <<panicked, should_exit, loop_exit, pending_shimejis,
                   buckets_windows_map, windows, spawned, worker, inbox, sorted,
                   cycle, dropping, dropped, drain_start, drain_log, adds_sent>>

\* add with a window the caller has just created
call_add(b, conf) ==
    /\ pc = "idle"
    /\ calls < MaxCalls
    /\ calls' = calls + 1
    /\ UNCHANGED unit_vars
    /\ b \in Ids
    /\ windows + Len(pending_shimejis) < MaxWindows
    /\ LET w == windows + 1
           r == ShimejiBucket_add(buckets[b], ReceiverAlive(buckets[b]))
       IN  /\ windows' = w
           /\ buckets' = [buckets EXCEPT ![b] = r.bucket]
           /\ IF r.send
              THEN /\ inbox' = [inbox EXCEPT ![buckets[b].sender] = Append(@, AddMsg(w, conf))]
                   /\ adds_sent' = [adds_sent EXCEPT ![b] = @ + 1]
              ELSE UNCHANGED <<inbox, adds_sent>>
           /\ ret' = Call("add", buckets[b], r.ret)
           /\ IF r.ret = "panic"
              THEN /\ panicked' = TRUE
                   /\ pc' = "dropping"
                   /\ dropping' = TRUE
              ELSE /\ pc' = "returned"
                   /\ UNCHANGED <<panicked, dropping>>
    /\ UNCHANGED <<should_exit, loop_exit, pending_shimejis, buckets_windows_map,
                   spawned, worker, sorted, cycle, joining, dropped, drain_start,
                   drain_log>>

call_was_resized(b, w) ==
    /\ pc = "idle"
    /\ calls < MaxCalls
    /\ calls' = calls + 1
    /\ UNCHANGED unit_vars
    /\ b \in Ids
    /\ w \in 1..windows
    /\ buckets[b].sender # None => Len(inbox[buckets[b].sender]) < MaxInbox
    /\ LET r == ShimejiBucket_was_resized(buckets[b], ReceiverAlive(buckets[b])) IN
       /\ buckets' = [buckets EXCEPT ![b] = r.bucket]
       /\ IF r.send
          THEN inbox' = [inbox EXCEPT ![buckets[b].sender] = Append(@, ResizedMsg(w))]
          ELSE UNCHANGED inbox
       /\ ret' = Call("was_resized", buckets[b], r.ret)
       /\ IF r.ret = "panic"
          THEN /\ panicked' = TRUE
               /\ pc' = "dropping"
               /\ dropping' = TRUE
          ELSE /\ pc' = "returned"
               /\ UNCHANGED <<panicked, dropping>>
    /\ UNCHANGED <<should_exit, loop_exit, pending_shimejis, buckets_windows_map,
                   windows, spawned, worker, sorted, cycle, joining, dropped,
                   drain_start, drain_log, adds_sent>>

\* BucketThreadMessage::Remove(id) arrives on the channel of worker t. No method
\* of ShimejiBucket sends one: it comes from a caller that drives the public
\* loop_for_shimeji_execution through the Sender of its channel.
send_remove(t, w) ==
    /\ pc = "idle"
    /\ calls < MaxCalls
    /\ calls' = calls + 1
    /\ UNCHANGED unit_vars
    /\ Spawned(t)
    /\ ~Terminated(t)
    /\ SenderAlive(t)
    /\ w \in 1..windows
    /\ Len(inbox[t]) < MaxInbox
    /\ inbox' = [inbox EXCEPT ![t] = Append(@, RemoveMsg(w))]
    /\ UNCHANGED <<pc, panicked, ret, should_exit, loop_exit, pending_shimejis,
                   buckets, buckets_windows_map, windows, spawned, worker, sorted,
                   cycle, joining, dropping, dropped, drain_start, drain_log,
                   adds_sent>>

\* the caller has looked at the result and goes on
call_returns ==
    /\ pc = "returned"
    /\ UNCHANGED calls
    /\ UNCHANGED unit_vars
    /\ pc' = "idle"
    /\ ret' = NoCall
    /\ UNCHANGED <<panicked, should_exit, loop_exit, pending_shimejis, buckets,
                   buckets_windows_map, windows, spawned, worker, inbox, sorted,
                   cycle, joining, dropping, dropped, drain_start, drain_log, adds_sent>>

\* ---- the worker thread: loop_for_shimeji_execution ----------------------------
\* the closure returns or unwinds: the Receiver and every queued message are dropped
Exit(t, how) ==
    /\ worker' = [worker EXCEPT ![t].pc = how, ![t].queued = 0, ![t].stepped = <<>>]
    /\ inbox' = [inbox EXCEPT ![t] = <<>>]

Receiver_take_newest(q) == [msg |-> Last(q), rest |-> Front(q)]

Receiver_take_peek(q) == [msg |-> Head(q), rest |-> q]

\* Receiver::recv / try_recv on a queue that is not empty: the oldest message
\* is taken out
Receiver_take(q) == [msg |-> Head(q), rest |-> Tail(q)]

inner_vec_outside_loop(old) == old

\* `let mut inner_vec = vec![];` in the body of 'running: the Vec of the pass
\* before, and every unit in it, is dropped
inner_vec_new(old) == <<>>

\* 'running: while !should_exit.load(Relaxed) { let mut inner_vec = vec![];
worker_running(t) ==
    /\ worker[t].pc = "top"
    /\ IF should_exit
       THEN Exit(t, "done")
       ELSE /\ worker' = [worker EXCEPT ![t].pc = "recv",
                                        ![t].inner_vec = inner_vec_new(@)]
            /\ UNCHANGED inbox
    /\ UNCHANGED ctl_vars

\* receiver.recv() and the match on the first message
worker_recv(t) ==
    /\ worker[t].pc = "recv"
    /\ IF inbox[t] # <<>>
       THEN LET got == Receiver_take(inbox[t])
                msg == got.msg
            IN  IF msg.type = "Add"
                THEN /\ worker' = [worker EXCEPT ![t].pc = "has_window",
                                                 ![t].inner_vec = Append(@, msg.id)]
                     /\ inbox' = [inbox EXCEPT ![t] = got.rest]
                ELSE \* _ => unimplemented!()
                     Exit(t, "panicked")
       ELSE \* blocks while the Sender lives; Err(RecvError) once it is dropped
            /\ ~SenderAlive(t)
            /\ Exit(t, "done")
    /\ UNCHANGED ctl_vars

worker_has_window_unchecked(t) ==
    /\ worker[t].pc = "has_window"
    /\ worker' = [worker EXCEPT ![t].pc = "try_recv",
                                ![t].queued = Len(inbox[t]),
                                ![t].stepped = <<>>]
    /\ UNCHANGED inbox
    /\ UNCHANGED ctl_vars

\* 'has_window: loop { if should_exit.load(Relaxed) { break 'running; }
worker_has_window(t) ==
    /\ worker[t].pc = "has_window"
    /\ IF should_exit
       THEN Exit(t, "done")
       ELSE /\ worker' = [worker EXCEPT ![t].pc = "try_recv",
                                        ![t].queued = Len(inbox[t]),
                                        ![t].stepped = <<>>]
            /\ UNCHANGED inbox
    /\ UNCHANGED ctl_vars

\* where a pass of 'has_window goes after the message, if any, is handled:
\* break 'has_window when inner_vec is empty, else the update of every unit
\* (for shimeji in inner_vec.iter_mut() { shimeji.update(); thread::yield_now(); })
\* and the next pass
AfterPoll(inner_vec) == IF inner_vec = <<>> THEN "top" ELSE "has_window"

RECURSIVE step_all_but_last(_)
step_all_but_last(inner_vec) ==
    IF Len(inner_vec) <= 1 THEN <<>>
    ELSE <<[call |-> "update", id |-> Head(inner_vec)],
           [call |-> "yield_now", id |-> Head(inner_vec)]>>
         \o step_all_but_last(Tail(inner_vec))

\* for shimeji in inner_vec.iter_mut() { shimeji.update(); thread::yield_now(); }
\* as the calls it makes, in order
RECURSIVE step_all(_)
step_all(inner_vec) ==
    IF inner_vec = <<>> THEN <<>>
    ELSE <<[call |-> "update", id |-> Head(inner_vec)],
           [call |-> "yield_now", id |-> Head(inner_vec)]>>
         \o step_all(Tail(inner_vec))

on_disconnected_polls_on(inner_vec) == AfterPoll(inner_vec)

\* Err(_) => break: try_recv found the channel empty and its Sender dropped;
\* the break leaves 'has_window for the head of 'running
on_disconnected(inner_vec) == "top"

on_message_evicts(inner_vec, msg) ==
    CASE msg.type = "Add" ->
            [panics |-> FALSE, inner_vec |-> Append(inner_vec, msg.id)]
      [] msg.type = "Resized" ->
            [panics |-> msg.id \notin Range(inner_vec), inner_vec |-> inner_vec]
      [] OTHER ->
            [panics |-> FALSE,
             inner_vec |-> SelectSeq(inner_vec, LAMBDA w : w # msg.id)]

on_message_ignores_add(inner_vec, msg) ==
    CASE msg.type = "Add" ->
            [panics |-> FALSE, inner_vec |-> inner_vec]
      [] msg.type = "Resized" ->
            [panics |-> msg.id \notin Range(inner_vec), inner_vec |-> inner_vec]
      [] OTHER ->
            [panics |-> TRUE, inner_vec |-> inner_vec]

\* `match val` in 'has_window: Add pushes a unit, Resized resizes the unit found
\* by .expect("resized ID should be valid"), Remove(..) => todo!()
on_message(inner_vec, msg) ==
    CASE msg.type = "Add" ->
            [panics |-> FALSE, inner_vec |-> Append(inner_vec, msg.id)]
      [] msg.type = "Resized" ->
            [panics |-> msg.id \notin Range(inner_vec), inner_vec |-> inner_vec]
      [] OTHER ->
            [panics |-> TRUE, inner_vec |-> inner_vec]

\* receiver.try_recv(), the match on its value and the rest of the pass
worker_try_recv(t) ==
    /\ worker[t].pc = "try_recv"
    /\ IF inbox[t] = <<>>
       THEN IF SenderAlive(t)
            THEN \* Err(TryRecvError::Empty) => None
                 /\ worker' = [worker EXCEPT
                                 ![t].pc = AfterPoll(worker[t].inner_vec),
                                 ![t].queued = 0,
                                 ![t].stepped = step_all(worker[t].inner_vec)]
                 /\ UNCHANGED inbox
            ELSE /\ worker' = [worker EXCEPT
                                 ![t].pc = on_disconnected(worker[t].inner_vec),
                                 ![t].queued = 0,
                                 ![t].stepped =
                                    IF on_disconnected(worker[t].inner_vec) = "top"
                                    THEN <<>> ELSE step_all(worker[t].inner_vec)]
                 /\ UNCHANGED inbox
       ELSE LET got == Receiver_take(inbox[t])
                r == on_message(worker[t].inner_vec, got.msg)
            IN  IF r.panics
                THEN Exit(t, "panicked")
                ELSE /\ worker' = [worker EXCEPT ![t].pc = AfterPoll(r.inner_vec),
                                                 ![t].inner_vec = r.inner_vec,
                                                 ![t].queued = 0,
                                                 ![t].stepped = step_all(r.inner_vec)]
                     /\ inbox' = [inbox EXCEPT ![t] = got.rest]
    /\ UNCHANGED ctl_vars

Worker(t) ==
    \/ worker_running(t)
    \/ worker_recv(t)
    \/ worker_has_window(t)
    \/ worker_try_recv(t)

\* ---- one sprite: loaded, given a window, updated as time passes ------------------
create_shimeji_data_from_file_name(name, fps_text, numbers, closed) ==
    /\ unit.pc = "none"
    /\ LET data == parse(name, fps_text, numbers, closed) IN
       unit' = IF data.err # "none"
               THEN [NoUnit EXCEPT !.pc = "failed", !.fps_text = fps_text, !.err = data.err,
                                   !.file = [numbers |-> numbers, closed |-> closed]]
               ELSE [NoUnit EXCEPT
                       !.pc = "loaded", !.fps_text = fps_text,
                       !.file = [numbers |-> numbers, closed |-> closed],
                       \* for mut animation in data.animations
                       !.data = IF data.animations = <<>> THEN NoData
                                ELSE AnimationData(data.animations[1])]
    /\ UNCHANGED <<clock, worker, inbox>>
    /\ UNCHANGED ctl_manager

\* the worker takes the Add that holds the data and makes the unit
unit_new ==
    /\ unit.pc = "loaded"
    /\ unit' = [ShimejiWindow_new(unit, clock) EXCEPT !.called_at = clock,
                                                      !.file = NoFile]
    /\ UNCHANGED <<clock, worker, inbox>>
    /\ UNCHANGED ctl_manager

\* shimeji.update() in the worker's loop
update(took) ==
    /\ unit.pc = "live"
    /\ clock + took <= MaxClock
    /\ LET r == ShimejiWindow_update(unit, clock, took) IN
       /\ unit' = [r.unit EXCEPT
                     !.pc = IF r.did \in {"early", "rendered"} THEN "live" ELSE "panicked",
                     !.last = r.did,
                     !.prev = unit.last,
                     !.called_at = clock]
       /\ clock' = IF r.did = "rendered" THEN clock + took ELSE clock
    /\ UNCHANGED <<worker, inbox>>
    /\ UNCHANGED ctl_manager

\* time passes
tick ==
    /\ unit.pc = "live"
    /\ clock < MaxClock
    /\ clock' = clock + 1
    /\ UNCHANGED <<unit, worker, inbox>>
    /\ UNCHANGED ctl_manager

\* ---- specifications ------------------------------------------------------------
Manager ==
    \/ \E amount \in 0..MaxPool : \E fail \in 0..amount : BucketManager_new(amount, fail)
    \/ \E conf \in Configs : add_shimeji(conf)
    \/ resumed
    \/ address_pending_shimejis
    \/ address_pending_return
    \/ window_event
    \/ Kill
    \/ drop_manager
    \/ \E b \in Ids : ShimejiBucket_drop(b)
    \/ join_returns
    \/ manager_dropped

Direct ==
    \/ \E b \in Ids : \E spawn_ok \in BOOLEAN : call_init(b, spawn_ok)
    \/ \E b \in Ids : call_join_thread(b)
    \/ \E b \in Ids : \E conf \in Configs : call_add(b, conf)
    \/ \E b \in Ids : \E w \in WindowIds : call_was_resized(b, w)
    \/ call_returns

Workers == \E t \in ThreadIds : Worker(t)

Events == \E w \in WindowIds : window_event_resized(w)

Protocol == \E t \in ThreadIds : \E w \in WindowIds : send_remove(t, w)

Units ==
    \/ \E name \in AnimationNames : \E fps_text \in FpsTexts : \E numbers \in FrameNumbers :
          \E closed \in BOOLEAN :
             create_shimeji_data_from_file_name(name, fps_text, numbers, closed)
    \/ unit_new
    \/ \E took \in 0..1 : update(took)
    \/ tick

Next == Manager \/ Direct \/ Workers \/ Events \/ Units \/ Protocol

Spec == Init /\ [][Next]_vars

\* the program as main runs it: buckets are reached through the manager only
ManagerNext == Manager \/ Workers

ManagerSpec == Init /\ [][ManagerNext]_vars

\* the manager, plus sprites handed to buckets behind its back: the pool's counts
\* can be any vector when address_pending_shimejis is called
LoadedNext ==
    \/ ManagerNext
    \/ \E b \in Ids : \E conf \in Configs : call_add(b, conf)
    \/ call_returns

LoadedSpec == Init /\ [][LoadedNext]_vars

\* the manager as main runs it, with the window system reporting resizes of the
\* windows the manager has created
EventNext ==
    \/ ManagerNext
    \/ Events
    \/ call_returns

EventSpec == Init /\ [][EventNext]_vars

\* the manager, with was_resized called for a window only on the bucket that
\* buckets_windows_map records for it
RoutedNext ==
    \/ \E amount \in 0..MaxPool : \E fail \in 0..amount : BucketManager_new(amount, fail)
    \/ \E conf \in Configs : add_shimeji(conf)
    \/ resumed
    \/ address_pending_shimejis
    \/ address_pending_return
    \/ Kill
    \/ Workers
    \/ \E w \in DOMAIN buckets_windows_map : call_was_resized(buckets_windows_map[w], w)
    \/ call_returns

RoutedSpec == Init /\ [][RoutedNext]_vars

\* one sprite definition, loaded and played
UnitSpec == Init /\ [][Units]_vars

\* a pool whose buckets are driven by direct calls only, until it is dropped
BucketNext ==
    \/ \E amount \in 0..MaxPool : \E fail \in 0..amount : BucketManager_new(amount, fail)
    \/ Direct
    \/ Kill
    \/ drop_manager
    \/ \E b \in Ids : ShimejiBucket_drop(b)
    \/ join_returns
    \/ manager_dropped
    \/ Workers

BucketSpec == Init /\ [][BucketNext]_vars

\* the worker loop against every message of its protocol
WorkerNext ==
    \/ \E amount \in 0..MaxPool : \E fail \in 0..amount : BucketManager_new(amount, fail)
    \/ \E b \in Ids : \E conf \in Configs : call_add(b, conf)
    \/ \E b \in Ids : \E w \in WindowIds : call_was_resized(b, w)
    \/ \E b \in Ids : call_join_thread(b)
    \/ call_returns
    \/ join_returns
    \/ Protocol
    \/ Workers

WorkerSpec == Init /\ [][WorkerNext]_vars

\* every spawned thread is scheduled again and again, and the controlling thread
\* goes on with the drop it has started
Fairness ==
    /\ \A t \in ThreadIds : WF_vars(Worker(t))
    /\ WF_vars(\E b \in Ids : ShimejiBucket_drop(b))
    /\ WF_vars(join_returns)
    /\ WF_vars(manager_dropped)

FairManagerSpec == Init /\ [][ManagerNext]_vars /\ Fairness

\* a pool that is given sprites and then dropped bucket by bucket; the threads
\* are scheduled again and again and a join returns once its thread has ended
DropNext ==
    \/ \E amount \in 0..MaxPool : \E fail \in 0..amount : BucketManager_new(amount, fail)
    \/ \E b \in Ids : \E conf \in Configs : call_add(b, conf)
    \/ call_returns
    \/ drop_manager
    \/ \E b \in Ids : ShimejiBucket_drop(b)
    \/ join_returns
    \/ manager_dropped
    \/ Workers

WorkerFairness ==
    /\ \A t \in ThreadIds : WF_vars(Worker(t))
    /\ WF_vars(join_returns)

\* the drop of the manager releases its buckets one after the other on the one
\* thread: once a bucket's drop has returned the next one's begins
DropFairness ==
    /\ WorkerFairness
    /\ WF_vars(\E b \in 0..(MaxPool - 1) : ShimejiBucket_drop(b))

FairDropSpec == Init /\ [][DropNext]_vars /\ DropFairness

\* a pool whose buckets are given sprites and resizes and are joined while the
\* exit flag stays clear
JoinNext ==
    \/ \E amount \in 0..MaxPool : \E fail \in 0..amount : BucketManager_new(amount, fail)
    \/ \E b \in Ids : \E conf \in Configs : call_add(b, conf)
    \/ \E b \in Ids : \E w \in WindowIds : call_was_resized(b, w)
    \/ \E b \in Ids : call_join_thread(b)
    \/ call_returns
    \/ join_returns
    \/ Workers

FairJoinSpec == Init /\ [][JoinNext]_vars /\ Fairness

\* ---- properties -------------------------------------------------------------------

\* the number of places (queued Add messages, owned sets) that hold window w
Holders(w) ==
    Cardinality({t \in ThreadIds : w \in Range(worker[t].inner_vec)})
    + Cardinality({p \in {<<t, i>> : t \in ThreadIds, i \in 1..(MaxWindows + MaxInbox)} :
                     /\ p[2] <= Len(inbox[p[1]])
                     /\ inbox[p[1]][p[2]].type = "Add"
                     /\ inbox[p[1]][p[2]].id = w})

\* thread t holds window w, queued as an Add or owned
HeldBy(w, t) ==
    \/ w \in Range(worker[t].inner_vec)
    \/ \E i \in DOMAIN inbox[t] : inbox[t][i].type = "Add" /\ inbox[t][i].id = w

\* C1: BucketManager::new(amount) with amount > 0, when it returns, has made
\* exactly `amount` buckets with ids 0..amount-1, each running on a thread of its
\* own that has just been spawned; new(0) panics and makes no bucket and no thread.
C1_NewMakesRunningPool ==
    [][\A amount \in 0..MaxPool : \A fail \in 0..amount :
         BucketManager_new(amount, fail) =>
            /\ amount = 0 =>
                  /\ panicked'
                  /\ buckets' = <<>>
                  /\ spawned' = 0
                  /\ \A t \in ThreadIds : ~Spawned(t)'
            /\ (amount > 0 /\ ~panicked') =>
                  /\ pc' = "idle"
                  /\ DOMAIN buckets' = 0..(amount - 1)
                  /\ spawned' = amount
                  /\ \A i \in 0..(amount - 1) :
                        /\ buckets'[i].id = i
                        /\ buckets'[i].is_running
                        /\ buckets'[i].thread \in ThreadIds
                        /\ worker'[buckets'[i].thread] = FreshWorker(i)
                        /\ \A j \in 0..(amount - 1) :
                              j # i => buckets'[j].thread # buckets'[i].thread
                  /\ Cardinality({t \in ThreadIds : Spawned(t)'}) = amount]_vars

C1_Witness ==
    /\ pc = "idle"
    /\ ~panicked
    /\ Cardinality(Ids) = 2
    /\ \A b \in Ids : buckets[b].is_running /\ worker[buckets[b].thread].pc = "top"
    /\ windows = 0 /\ calls = 0

\* the order the claim names: ascending count, ties by ascending bucket id
AscendingCountThenId(counts) ==
    LET n == Cardinality(DOMAIN counts) IN
    CHOOSE s \in [1..n -> DOMAIN counts] :
        \A i \in 1..n : \A j \in 1..n :
            i < j => \/ counts[s[i]] < counts[s[j]]
                     \/ counts[s[i]] = counts[s[j]] /\ s[i] < s[j]

\* C2: within one call of address_pending_shimejis the i-th Add (i from 0) goes to
\* bucket order[i mod poolSize], order being the bucket ids by ascending count as
\* read at the start of the call, ties by ascending id; it is never recomputed.
C2_RoundRobinOverSnapshot ==
    pc = "drain" =>
        \A i \in 1..Len(drain_log) :
            drain_log[i].bucket =
                AscendingCountThenId(drain_start.counts)[((i - 1) % Cardinality(Ids)) + 1]

C2_Witness ==
    /\ pc = "drain"
    /\ Cardinality(Ids) = 2
    /\ drain_start.counts[0] = 1 /\ drain_start.counts[1] = 0
    /\ Len(drain_log) = 2
    /\ drain_log[1].bucket = 1 /\ drain_log[2].bucket = 0

\* C3: every Add goes to a bucket whose count, just before the send, is minimal
\* in the pool.
C3_AddGoesToLeastLoaded ==
    [][\A b \in Ids :
         (b \in DOMAIN adds_sent /\ adds_sent'[b] > adds_sent[b]) =>
            \A c \in Ids : contained_shimejis(buckets[b]) <= contained_shimejis(buckets[c])]_vars

C3_Witness ==
    /\ pc = "drain"
    /\ Cardinality(Ids) = 2
    /\ drain_start.counts[0] = 1 /\ drain_start.counts[1] = 0
    /\ Len(drain_log) = 1
    /\ Counts[0] = 1 /\ Counts[1] = 1

\* C4: when address_pending_shimejis returns, the queue is empty and each sprite
\* that was pending at the start has got one new window, one Add in one bucket's
\* inbox and one routing-map entry from that window to that bucket.
C4_DrainHandlesEachPendingOnce ==
    [][address_pending_return =>
         LET before == drain_start.pending
             k == Len(before)
         IN  /\ pending_shimejis' = <<>>
             /\ Len(drain_log) = k
             /\ windows = drain_start.windows + k
             /\ \A i \in 1..k :
                   LET e == drain_log[i]
                       t == buckets[e.bucket].sender
                   IN  /\ e.sprite = before[k - i + 1]
                       /\ e.window = drain_start.windows + i
                       /\ e.window \in DOMAIN buckets_windows_map
                       /\ buckets_windows_map[e.window] = e.bucket
                       /\ t # None
                       /\ ~Terminated(t) => (HeldBy(e.window, t) /\ Holders(e.window) = 1)
             /\ \A b \in Ids :
                   Counts[b] - drain_start.counts[b]
                      = Cardinality({i \in 1..k : drain_log[i].bucket = b})
             /\ DOMAIN buckets_windows_map =
                   drain_start.routed \cup {drain_log[i].window : i \in 1..k}]_vars

C4_Witness ==
    /\ pc = "drain"
    /\ pending_shimejis = <<>>
    /\ Len(drain_start.pending) = 2
    /\ Len(drain_log) = 2
    /\ drain_log[1].bucket # drain_log[2].bucket

\* C5: once the manager is being dropped (the flag is set by the first bucket's
\* Drop, every bucket drops its sender and joins), the drop completes, and then
\* every thread that was ever spawned has terminated.
C5_ShutdownTerminates ==
    (pc = "dropping") ~>
        (pc = "dropped" /\ \A t \in ThreadIds : Spawned(t) => Terminated(t))

C5_Witness ==
    /\ pc = "dropped"
    /\ ~panicked
    /\ should_exit
    /\ Cardinality(Ids) = 2
    /\ \E b \in Ids : adds_sent[b] = 0
    /\ \E b \in Ids : adds_sent[b] > 0
    /\ \A t \in ThreadIds : Spawned(t) => Terminated(t)

\* C6: join_thread on a bucket that is not running returns Ok at once: it joins
\* no thread handle and leaves the bucket, the threads and the inboxes as they
\* were; the join_thread inside Drop does the same.
C6_JoinThreadIdempotent ==
    [][\A b \in Ids :
         ~buckets[b].is_running =>
            /\ call_join_thread(b) =>
                  /\ ret' = Call("join_thread", buckets[b], "Ok")
                  /\ pc' = "returned"
                  /\ joining' = joining
                  /\ buckets' = buckets
                  /\ worker' = worker
                  /\ inbox' = inbox
            /\ ShimejiBucket_drop(b) =>
                  /\ pc' = "dropping"
                  /\ joining' = joining
                  /\ buckets' = buckets
                  /\ worker' = worker
                  /\ inbox' = inbox]_vars

C6_Witness ==
    /\ pc = "returned"
    /\ ret = [op |-> "join_thread", id |-> 0, result |-> "Ok", running |-> FALSE]
    /\ calls = 2
    /\ buckets[0].thread = None /\ buckets[0].sender = None
    /\ Terminated(1)

\* C7: init on a running bucket returns DoubleInit and changes nothing: no thread
\* is spawned, no channel made, and the bucket's fields stay as they were.
C7_DoubleInitChangesNothing ==
    [][\A b \in Ids : \A spawn_ok \in BOOLEAN :
         (call_init(b, spawn_ok) /\ buckets[b].is_running) =>
            /\ ret' = Call("init", buckets[b], "DoubleInit")
            /\ buckets' = buckets
            /\ spawned' = spawned
            /\ worker' = worker
            /\ inbox' = inbox]_vars

C7_Witness ==
    /\ pc = "returned"
    /\ ret.op = "init" /\ ret.running /\ ret.result = "DoubleInit"
    /\ buckets[ret.id].is_running
    /\ spawned = Cardinality(Ids)

\* C8: a bucket that has stopped running (its join_thread has returned) never
\* becomes running again.
C8_NoReentryAfterJoin ==
    [][\A b \in Ids : ~buckets[b].is_running => ~buckets'[b].is_running]_vars

\* C9: add and was_resized on a bucket that is not running return NotRunning and
\* have no effect: the count is not incremented and no inbox gets a message.
C9_NotRunningRejected ==
    [][\A b \in Ids :
         ~buckets[b].is_running =>
            /\ \A conf \in Configs :
                  call_add(b, conf) =>
                     /\ ret' = Call("add", buckets[b], "NotRunning")
                     /\ ~panicked'
                     /\ buckets' = buckets
                     /\ inbox' = inbox
                     /\ adds_sent' = adds_sent
            /\ \A w \in WindowIds :
                  call_was_resized(b, w) =>
                     /\ ret' = Call("was_resized", buckets[b], "NotRunning")
                     /\ ~panicked'
                     /\ buckets' = buckets
                     /\ inbox' = inbox
                     /\ adds_sent' = adds_sent]_vars

C9_Witness ==
    /\ pc = "returned"
    /\ ret.op = "add" /\ ~ret.running /\ ret.result = "NotRunning"
    /\ ~buckets[ret.id].is_running
    /\ contained_shimejis(buckets[ret.id]) = 0
    /\ windows = 1

\* C10: in every reachable state a bucket's count equals the number of Add
\* messages sent through it.
C10_CountEqualsAddsSent ==
    \A b \in Ids : contained_shimejis(buckets[b]) = adds_sent[b]

\* C11: between bucket operations (after new, init whether it succeeded or failed,
\* add, was_resized, join_thread) the three fields of every bucket agree: the
\* sender is present iff is_running is true iff a thread handle is present.  The
\* one bucket whose join_thread is still blocked in JoinHandle::join is inside an
\* operation and is not looked at.
C11_FieldsAgree ==
    \A b \in Ids :
        (joining.thread = None \/ joining.id # b) =>
            /\ (buckets[b].sender # None) <=> buckets[b].is_running
            /\ buckets[b].is_running <=> (buckets[b].thread # None)

C11_Witness ==
    /\ pc = "returned"
    /\ ret = [op |-> "join_thread", id |-> 0, result |-> "Ok", running |-> TRUE]
    /\ ~buckets[0].is_running /\ buckets[0].sender = None /\ buckets[0].thread = None
    /\ Cardinality(Ids) = 2
    /\ buckets[1].is_running /\ buckets[1].sender # None /\ buckets[1].thread # None

\* C12: a resize reported for a window id without an entry in the routing map
\* fails with UnknownWindowRoute, without a panic and without a Resized message to
\* any bucket; a resize reported for a window id with an entry forwards exactly
\* one Resized message to the bucket recorded for that id.
C12_ResizeIsRouted ==
    [][\A w \in WindowIds :
         window_event_resized(w) =>
            IF w \in DOMAIN buckets_windows_map
            THEN LET t == buckets[buckets_windows_map[w]].sender IN
                 /\ t # None
                 /\ inbox' = [inbox EXCEPT ![t] = Append(@, ResizedMsg(w))]
            ELSE /\ ret'.result = "UnknownWindowRoute"
                 /\ ~panicked'
                 /\ inbox' = inbox]_vars

\* C13: when a bucket's worker has terminated (the flag was set, or the worker
\* failed) while the bucket still reports is_running, add and was_resized on it
\* return NotRunning; the failed send never panics the controlling thread.
C13_DeadWorkerIsNotRunning ==
    [][\A b \in Ids :
         (/\ buckets[b].is_running
          /\ buckets[b].sender # None
          /\ Terminated(buckets[b].sender)) =>
            /\ \A conf \in Configs :
                  call_add(b, conf) =>
                     /\ ret' = Call("add", buckets[b], "NotRunning")
                     /\ ~panicked'
            /\ \A w \in WindowIds :
                  call_was_resized(b, w) =>
                     /\ ret' = Call("was_resized", buckets[b], "NotRunning")
                     /\ ~panicked']_vars

\* C14: when the worker of a bucket has panicked, join_thread on that bucket
\* still returns Ok: the failure is taken at the join and is not passed on to the
\* caller, and afterwards the bucket is not running and holds neither a sender
\* nor a thread handle.
C14_WorkerPanicAbsorbed ==
    [][(join_returns /\ worker[joining.thread].pc = "panicked") =>
         /\ panicked' = panicked
         /\ ~buckets'[joining.id].is_running
         /\ buckets'[joining.id].sender = None
         /\ buckets'[joining.id].thread = None
         /\ ~dropping => (pc' = "returned" /\ ret'.op = "join_thread" /\ ret'.result = "Ok")
         /\ dropping => (pc' = "dropping" /\ joining.id \in dropped')]_vars

C14_Witness ==
    /\ pc = "returned"
    /\ ~panicked
    /\ ret.op = "join_thread" /\ ret.running /\ ret.result = "Ok"
    /\ \E t \in ThreadIds : worker[t].id = ret.id /\ worker[t].pc = "panicked"
    /\ ~buckets[ret.id].is_running
    /\ buckets[ret.id].sender = None /\ buckets[ret.id].thread = None

\* C15: once the shared exit flag is set the manager creates no further window
\* and sends no further Add or Resized message: every step taken while the flag
\* is set leaves the number of windows created and the number of Add messages
\* sent through each bucket as they were (the manager sends no Resized at all).
C15_NothingSentAfterExitFlag ==
    [][should_exit => (windows' = windows /\ adds_sent' = adds_sent)]_vars

\* C16: for a clip of n >= 1 frames every update leaves the frame cursor unset or
\* at a 1-based value in 1..n and never indexes a frame out of range; an eligible
\* update from cursor n sets the cursor to 1 and renders the frame at index 0.
C16_CursorStaysInClip ==
    [][\A took \in 0..1 :
         (update(took) /\ Len(unit.data.frames) >= 1) =>
            /\ \/ unit'.current_frame = None
               \/ unit'.current_frame \in 1..Len(unit.data.frames)
            /\ unit'.last # "panic: index out of bounds"
            /\ (unit'.last = "rendered" /\ unit.current_frame = Len(unit.data.frames)) =>
                  /\ unit'.current_frame = 1
                  /\ unit'.pixels = unit.data.frames[1]]_vars

C16_Witness ==
    /\ unit.pc = "live"
    /\ unit.last = "rendered"
    /\ Len(unit.data.frames) = 3
    /\ unit.current_frame = 1
    /\ unit.pixels = unit.data.frames[1]

\* C17: an update called when less than the clip's frame interval has passed
\* since the last rendered timestamp does nothing: cursor, timestamp, surface
\* and visibility stay as they were and nothing is presented.
C17_EarlyUpdateDoesNothing ==
    [][\A took \in 0..1 :
         (/\ update(took)
          /\ unit.data.name = "idle"
          /\ ~time_between_frames(unit.data.fps).panics
          /\ clock - unit.last_rendered_frame < time_between_frames(unit.data.fps).ticks) =>
            /\ unit'.last = "early"
            /\ unit'.current_frame = unit.current_frame
            /\ unit'.last_rendered_frame = unit.last_rendered_frame
            /\ unit'.pixels = unit.pixels
            /\ unit'.visible = unit.visible
            /\ clock' = clock]_vars

C17_Witness ==
    /\ unit.pc = "live"
    /\ unit.last = "early" /\ unit.prev = "rendered"
    /\ unit.data.fps = 12
    /\ unit.called_at = unit.last_rendered_frame + 1
    /\ unit.current_frame = 2

\* C18: of two consecutive update calls on a unit that are less than one frame
\* interval apart, the second leaves the displayed frame and the last-rendered
\* timestamp unchanged, whatever the first call did.
C18_SecondCallWithinInterval ==
    [][\A took \in 0..1 :
         (/\ update(took)
          /\ unit.last \in {"early", "rendered"}
          /\ clock - unit.called_at < time_between_frames(unit.data.fps).ticks) =>
            /\ unit'.pixels = unit.pixels
            /\ unit'.last_rendered_frame = unit.last_rendered_frame]_vars

\* C18, amended: of two consecutive update calls on a unit that are less than one
\* frame interval apart and the first of which rendered, the second leaves the
\* displayed frame and the last-rendered timestamp unchanged.
C18_SecondCallAfterRender ==
    [][\A took \in 0..1 :
         (/\ update(took)
          /\ unit.last = "rendered"
          /\ clock - unit.called_at < time_between_frames(unit.data.fps).ticks) =>
            /\ unit'.last = "early"
            /\ unit'.pixels = unit.pixels
            /\ unit'.current_frame = unit.current_frame
            /\ unit'.last_rendered_frame = unit.last_rendered_frame]_vars

C18_Witness ==
    /\ unit.pc = "live"
    /\ unit.last = "early" /\ unit.prev = "rendered"
    /\ unit.data.fps = 12
    /\ Len(unit.data.frames) >= 2
    /\ unit.called_at = unit.last_rendered_frame
    /\ unit.current_frame = 2

\* C19: a clip whose frame rate is given as 0, or is not given, is played at the
\* default rate 24: the definition yields Animation Data whose fps is 24, and
\* update on a unit made from it never fails on the frame interval.
C19_ZeroOrMissingFpsIsDefault ==
    unit.fps_text \in {"absent", "0"} =>
        /\ unit.pc # "none" => unit.pc # "failed"
        /\ unit.pc \in {"loaded", "live", "panicked"} => unit.data.fps = DefaultFps
        /\ unit.last # "panic: from_secs_f64"

\* C20: add_shimeji only appends one entry to the pending queue: no window is
\* created, no message sent, no bucket's count or running state changed and no
\* routing-map entry added; the queued sprite has no bucket until
\* address_pending_shimejis runs.
C20_AddShimejiOnlyEnqueues ==
    [][\A conf \in Configs :
         add_shimeji(conf) =>
            /\ pending_shimejis' = Append(pending_shimejis, conf)
            /\ windows' = windows
            /\ inbox' = inbox
            /\ adds_sent' = adds_sent
            /\ buckets' = buckets
            /\ buckets_windows_map' = buckets_windows_map
            /\ worker' = worker
            /\ pc' = "idle"]_vars

C20_Witness ==
    /\ pc = "idle"
    /\ Len(pending_shimejis) = 2
    /\ windows = 0
    /\ DOMAIN buckets_windows_map = {}
    /\ \A b \in Ids : buckets[b].is_running /\ contained_shimejis(buckets[b]) = 0
    /\ \A t \in ThreadIds : inbox[t] = <<>>

\* C21: in every pass of the inner loop the worker takes every message that was
\* queued in its inbox at the head of the pass before it steps any unit, so a
\* sprite whose Add is queued at the head of a pass is owned and updated in that
\* pass.
C21_PassTakesAllQueued ==
    [][\A t \in ThreadIds :
         (worker_try_recv(t) /\ worker'[t].stepped # <<>>) =>
            /\ Len(inbox[t]) - Len(inbox'[t]) >= worker[t].queued
            /\ \A i \in 1..worker[t].queued :
                  inbox[t][i].type = "Add" =>
                     \E k \in DOMAIN worker'[t].stepped :
                        worker'[t].stepped[k] = [call |-> "update", id |-> inbox[t][i].id]]_vars

\* C22: join_thread on a running bucket always returns, also while the exit flag
\* is clear: the sender is dropped, the worker (blocked on its empty inbox, or
\* owning sprites and polling) terminates, the join completes and the bucket is
\* left not running.
C22_JoinThreadReturns ==
    (pc = "join" /\ ~dropping) ~>
        (/\ pc = "returned"
         /\ ret.op = "join_thread" /\ ret.result = "Ok"
         /\ ~buckets[ret.id].is_running)

C22_Witness ==
    /\ pc = "returned"
    /\ ret.op = "join_thread" /\ ret.running /\ ret.result = "Ok"
    /\ ~should_exit
    /\ ~buckets[ret.id].is_running
    /\ \E t \in ThreadIds :
          /\ worker[t].id = ret.id
          /\ worker[t].pc = "done"
          /\ adds_sent[ret.id] = 2

\* C23: a worker is at its blocking receive only while it owns no unit; while it
\* owns at least one unit it is in the inner loop, where the inbox is only
\* polled.
C23_BlocksOnlyWhenEmpty ==
    \A t \in ThreadIds :
        /\ worker[t].pc = "recv" => worker[t].inner_vec = <<>>
        /\ (~Terminated(t) /\ worker[t].inner_vec # <<>>) =>
              worker[t].pc \in {"has_window", "try_recv", "top"}

C23_Witness ==
    \E t \in ThreadIds :
        /\ worker[t].pc = "recv"
        /\ worker[t].inner_vec = <<>>
        /\ inbox[t] = <<>>
        /\ ~SenderAlive(t)
        /\ adds_sent[worker[t].id] > 0

\* C24: once the exit flag is set, a worker in its inner loop exits at the head
\* of its next pass: it finishes at most the pass in progress, and then starts no
\* pass, takes no message and updates no unit.
C24_ExitAtNextPassHead ==
    [][\A t \in ThreadIds :
         (should_exit /\ Worker(t)) =>
            /\ worker[t].pc = "has_window" =>
                  /\ worker'[t].pc = "done"
                  /\ worker'[t].inner_vec = worker[t].inner_vec
                  /\ worker'[t].stepped = <<>>
            /\ worker[t].pc = "try_recv" =>
                  worker'[t].pc \in {"has_window", "top", "panicked"}
            /\ worker[t].pc = "top" => worker'[t].pc = "done"]_vars

C24_Witness ==
    /\ should_exit
    /\ \E t \in ThreadIds :
          /\ worker[t].pc = "done"
          /\ Len(worker[t].inner_vec) = 2

\* the window ids of the Add messages in a queue, in queue order
AddIds(q) ==
    LET adds == SelectSeq(q, LAMBDA m : m.type = "Add") IN
    [i \in DOMAIN adds |-> adds[i].id]

Ascending(s) == \A i \in DOMAIN s : \A j \in DOMAIN s : i < j => s[i] < s[j]

\* C25: a worker handles the messages of its inbox in the order they were sent.
\* Window ids are handed out in the order of the Add sends, so: the units a
\* worker owns, followed by the Adds still queued for it, are in send order, and
\* no Add for a window is queued behind a Resized for the same window.
C25_MessagesInSendOrder ==
    \A t \in ThreadIds :
        /\ Ascending(worker[t].inner_vec \o AddIds(inbox[t]))
        /\ \A i \in DOMAIN inbox[t] : \A j \in DOMAIN inbox[t] :
              (i < j /\ inbox[t][i].type = "Resized") =>
                 ~(inbox[t][j].type = "Add" /\ inbox[t][j].id = inbox[t][i].id)

C25_Witness ==
    \E t \in ThreadIds :
        /\ worker[t].inner_vec = <<1, 2>>
        /\ inbox[t] = <<ResizedMsg(1)>>
        /\ ~Terminated(t)

\* the positions at which worker t owns window w
Owned(t, w) == {i \in DOMAIN worker[t].inner_vec : worker[t].inner_vec[i] = w}

\* the positions of inbox t that hold an Add for window w
QueuedAdds(t, w) ==
    {i \in DOMAIN inbox[t] : inbox[t][i].type = "Add" /\ inbox[t][i].id = w}

\* every place that holds window w
Holdings(w) ==
    UNION {{<<t, "inbox", i>> : i \in QueuedAdds(t, w)}
             \cup {<<t, "owned", i>> : i \in Owned(t, w)} : t \in ThreadIds}

\* C26: every window is held by at most one party (one inbox, as an Add not yet
\* processed, or one worker's owned set), and a window a worker owns is mapped
\* by the routing map, once it has an entry, to that worker's bucket.
C26_OneHolderPerWindow ==
    \A w \in WindowIds :
        /\ Cardinality(Holdings(w)) <= 1
        /\ \A t \in ThreadIds :
              (Owned(t, w) # {} /\ w \in DOMAIN buckets_windows_map)
                 => buckets_windows_map[w] = worker[t].id

C26_Witness ==
    \E t \in ThreadIds : \E u \in ThreadIds :
        /\ t # u
        /\ Owned(t, 1) # {}
        /\ QueuedAdds(u, 2) # {}
        /\ buckets_windows_map[1] = worker[t].id
        /\ buckets_windows_map[2] = worker[u].id

\* C27: in every state a bucket's count is at least the number of units its
\* worker owns, and no step of a worker changes any bucket's count.
CountCoversOwned ==
    \A t \in ThreadIds :
        (Spawned(t) /\ worker[t].id \in Ids) =>
           Len(worker[t].inner_vec) <= contained_shimejis(buckets[worker[t].id])

C27_CountCoversOwned ==
    /\ CountCoversOwned
    /\ [][/\ CountCoversOwned'
          /\ Counts' # Counts => ~Workers]_vars

C27_Witness ==
    \E t \in ThreadIds :
        /\ Spawned(t)
        /\ worker[t].id \in Ids
        /\ worker[t].pc = "try_recv"
        /\ Len(worker[t].inner_vec) = 2
        /\ contained_shimejis(buckets[worker[t].id]) = 2

\* C28: a pass of the inner loop that runs to its end has called update exactly
\* once on every unit the worker owns at its stepping phase, in the order the
\* units were added, and yield_now right after each update.
C28_PassStepsEveryUnitOnce ==
    [][\A t \in ThreadIds :
         (worker_try_recv(t) /\ worker'[t].pc = "has_window") =>
            LET owned == worker'[t].inner_vec
                calls_made == worker'[t].stepped
            IN  /\ Len(calls_made) = 2 * Len(owned)
                /\ \A i \in DOMAIN owned :
                      /\ calls_made[2 * i - 1] = [call |-> "update", id |-> owned[i]]
                      /\ calls_made[2 * i] = [call |-> "yield_now", id |-> owned[i]]
                      /\ Cardinality({k \in DOMAIN calls_made :
                                        calls_made[k] = [call |-> "update", id |-> owned[i]]}) = 1]_vars

C28_Witness ==
    \E t \in ThreadIds :
        /\ worker[t].pc = "has_window"
        /\ worker[t].inner_vec = <<1, 2>>
        /\ Len(worker[t].stepped) = 4

\* C29: a worker that takes a Remove from its inbox, as its first message or in
\* the inner loop, terminates abnormally there: its owned set is as it was, and
\* what was queued behind the Remove is never processed (a worker that has
\* terminated abnormally takes no further step and its inbox is gone).
C29_RemoveAlwaysFails ==
    [][\A t \in ThreadIds :
         /\ ( /\ Worker(t)
              /\ worker[t].pc \in {"recv", "try_recv"}
              /\ inbox[t] # <<>>
              /\ Head(inbox[t]).type = "Remove" )
            => /\ worker'[t].pc = "panicked"
               /\ worker'[t].inner_vec = worker[t].inner_vec
               /\ inbox'[t] = <<>>
         /\ worker[t].pc = "panicked"
            => /\ worker'[t] = worker[t]
               /\ inbox'[t] = <<>>]_vars

\* only window 1 exists and the worker owns it, so the message that ended the
\* worker in the inner loop was neither an Add nor a Resized: it was a Remove
C29_Witness ==
    \E t \in ThreadIds :
        /\ windows = 1
        /\ worker[t].pc = "panicked"
        /\ worker[t].inner_vec = <<1>>

\* the worker threads of bucket b that have been created and have not ended
LiveThreads(b) == {t \in ThreadIds : Spawned(t) /\ ~Terminated(t) /\ worker[t].id = b}

AtMostOneLiveThread ==
    /\ \A b \in Ids : Cardinality(LiveThreads(b)) <= 1
    /\ Cardinality({t \in ThreadIds : Spawned(t) /\ ~Terminated(t)}) <= Cardinality(Ids)

\* C30: an init that returns Ok has created exactly one worker thread and an
\* init that returns an error has created none; in every state each bucket has
\* at most one live worker thread, so there are never more live worker threads
\* than buckets.
C30_OneThreadPerBucket ==
    /\ [][\A b \in Ids : \A spawn_ok \in BOOLEAN :
            call_init(b, spawn_ok) =>
               LET created == {t \in ThreadIds : ~Spawned(t) /\ Spawned(t)'} IN
               /\ ret'.result = "Ok" =>
                     /\ Cardinality(created) = 1
                     /\ \A t \in created : worker'[t] = FreshWorker(b)
               /\ ret'.result # "Ok" => created = {}
               /\ \A t \in ThreadIds : Spawned(t) => worker'[t] = worker[t]]_vars
    /\ AtMostOneLiveThread
    /\ [][AtMostOneLiveThread']_vars

\* a bucket was joined and initialised again: its first thread has ended and
\* its second is alive
C30_Witness ==
    \E b \in Ids : \E t \in ThreadIds : \E u \in ThreadIds :
        /\ t # u
        /\ worker[t].id = b /\ Terminated(t)
        /\ worker[u].id = b /\ Spawned(u) /\ ~Terminated(u)
        /\ buckets[b].thread = u
        /\ ret.op = "init" /\ ret.result = "Ok"

\* C31: in a run of the manager alone (new, add_shimeji and the drains of
\* address_pending_shimejis, however many and however long) the counts of any two
\* buckets differ by at most one.
C31_CountsStayBalanced ==
    \A a \in Ids : \A b \in Ids :
        contained_shimejis(buckets[a]) <= contained_shimejis(buckets[b]) + 1

\* a later drain that began with counts 1 and 0 and has evened them out
C31_Witness ==
    /\ pc = "drain"
    /\ DOMAIN drain_start.counts = {0, 1}
    /\ drain_start.counts[0] = 1
    /\ drain_start.counts[1] = 0
    /\ contained_shimejis(buckets[0]) = 1
    /\ contained_shimejis(buckets[1]) = 1

\* C32: the first render of a new unit (its frame cursor unset) shows the first
\* frame of the clip: the cursor becomes 1 and the surface holds the frame at
\* index 0.
C32_FirstRenderShowsFirstFrame ==
    [][\A took \in 0..1 :
         (/\ update(took)
          /\ unit.current_frame = None
          /\ unit'.last = "rendered")
            => /\ unit'.current_frame = 1
               /\ unit'.pixels = unit.data.frames[1]]_vars

\* worker t is blocked in receiver.recv(): nothing is queued and the Sender lives
BlockedInRecv(t) == worker[t].pc = "recv" /\ inbox[t] = <<>> /\ SenderAlive(t)

\* C33: the drop of one bucket sets the flag that all share. From then on a
\* worker of any bucket that comes to the head of one of its two loops ends
\* there, and every worker ends: at its next flag check, or, when it is blocked
\* in the receive, once the receive returns (its own bucket's drop, which follows
\* in the same drop of the pool, drops the Sender).
C33_OneDropStopsEveryWorker ==
    /\ [][\A t \in ThreadIds :
            (/\ dropped # {}
             /\ worker[t].pc \in {"top", "has_window"}
             /\ worker'[t] # worker[t]) => worker'[t].pc = "done"]_vars
    /\ (dropped # {}) ~> (\A t \in ThreadIds : Spawned(t) => Terminated(t))

\* bucket 0 has been dropped; bucket 1 remains and still reports is_running,
\* and its worker has left the inner loop on the flag
C33_Witness ==
    /\ dropped = {0}
    /\ pc = "dropping"
    /\ 1 \in Ids
    /\ buckets[1].is_running
    /\ buckets[1].thread # None
    /\ worker[buckets[1].thread].pc = "done"
    /\ worker[buckets[1].thread].inner_vec # <<>>

InnerLoop == {"has_window", "try_recv"}

\* C34: while a worker is in its inner loop the units it owns are never fewer
\* than before and never none, and the inner loop is left for the blocking
\* receive only by the break on a disconnected channel: the break on an empty
\* owned set is never taken.
C34_OwnedSetNeverShrinks ==
    [][\A t \in ThreadIds :
         /\ worker[t].pc \in InnerLoop => worker[t].inner_vec # <<>>
         /\ (worker[t].pc \in InnerLoop /\ worker'[t].pc \in InnerLoop) =>
               /\ Len(worker'[t].inner_vec) >= Len(worker[t].inner_vec)
               /\ SubSeq(worker'[t].inner_vec, 1, Len(worker[t].inner_vec))
                     = worker[t].inner_vec
         /\ (worker_try_recv(t) /\ worker'[t].pc = "top") =>
               (inbox[t] = <<>> /\ ~SenderAlive(t))]_vars

\* a worker that owns two units has been sent a Remove for one of them and has
\* failed on it, owning both still
C34_Witness ==
    \E t \in ThreadIds :
        /\ windows = 2
        /\ worker[t].pc = "panicked"
        /\ worker[t].inner_vec = <<1, 2>>

\* C35: when was_resized is only called on the bucket the routing map records
\* for the window, no worker fails: the first message a worker takes is an Add,
\* and a Resized it takes in the inner loop is for a window it owns.
C35_RoutedResizeNeverFails ==
    [][\A t \in ThreadIds :
         /\ (worker_recv(t) /\ inbox[t] # <<>>) => Head(inbox[t]).type = "Add"
         /\ (worker_try_recv(t) /\ inbox[t] # <<>> /\ Head(inbox[t]).type = "Resized") =>
               Head(inbox[t]).id \in Range(worker[t].inner_vec)
         /\ worker'[t].pc = "panicked" => worker[t].pc = "panicked"]_vars

\* was_resized has sent a Resized for window 1 to the bucket that owns it, and
\* the worker has taken it and goes on
C35_Witness ==
    /\ ret.op = "was_resized"
    /\ ret.result = "Ok"
    /\ 1 \in DOMAIN buckets_windows_map
    /\ buckets_windows_map[1] = ret.id
    /\ \E t \in ThreadIds :
          /\ buckets[ret.id].thread = t
          /\ inbox[t] = <<>>
          /\ worker[t].inner_vec = <<1>>
          /\ worker[t].pc = "has_window"
          /\ windows = 1

C37_EveryClipHasAFrame ==
    /\ unit.pc = "loaded" =>
          \/ unit.data = NoData
          \/ Len(unit.data.frames) >= 1
    /\ (unit.pc \in {"loaded", "failed"} /\ parse_f64(unit.fps_text).some) =>
          /\ (unit.file.closed /\ unit.file.numbers = <<>>) =>
                (unit.pc = "failed" /\ unit.err = "MalformedFile")
          /\ ~unit.file.closed =>
                (unit.pc = "loaded" /\ unit.data = NoData)

\* a definition whose fps is well-formed has failed with MalformedFile: its
\* Animation was closed without a frame
C37_Witness ==
    /\ unit.pc = "failed"
    /\ unit.err = "MalformedFile"
    /\ unit.fps_text = "24"
    /\ unit.file = [numbers |-> <<>>, closed |-> TRUE]

\* q holds the same frame elements as s, in some order
Permutation(q, s) ==
    /\ Len(q) = Len(s)
    /\ \A x \in 1..MaxFrames :
          Cardinality({i \in DOMAIN q : q[i] = x}) = Cardinality({i \in DOMAIN s : s[i] = x})

\* C38: the frames of a loaded clip are the frame elements of the definition in
\* ascending order of their number, whatever their order in the definition; when
\* the numbers are distinct, every other order of the same elements loads to the
\* same sequence.
C38_FramesSortedByNumber ==
    (unit.pc = "loaded" /\ unit.data # NoData) =>
        LET frames == unit.data.frames IN
        /\ Permutation(frames, unit.file.numbers)
        /\ \A i \in DOMAIN frames : \A j \in DOMAIN frames :
              i < j => FrameNumberKey[frames[i]] <= FrameNumberKey[frames[j]]
        /\ Cardinality(Range(unit.file.numbers)) = Len(unit.file.numbers) =>
              \A q \in FrameNumbers :
                 Permutation(q, unit.file.numbers) =>
                    AnimationData(AnimationXml(unit.data.name, NoValue, q)).frames = frames

\* frames given in the order 3, 1, 2 have been loaded as 1, 2, 3
C38_Witness ==
    /\ unit.pc = "loaded"
    /\ unit.file.numbers = <<3, 1, 2>>
    /\ unit.data.frames = <<1, 2, 3>>

====
